---- MODULE Spec2Model ----
(***************************************************************************)
(* A model of CrosswordCreator (generate.py): node consistency, AC-3 and   *)
(* the backtracking search that solve() runs on a crossword problem.       *)
(*                                                                         *)
(* Words are sequences of letters.  Variables are numbered 1..n in the     *)
(* iteration order of the dictionary self.domains; every problem with the  *)
(* variables in another order is the same problem with the numbers         *)
(* permuted, and Init draws all of them.  The orders the program does not  *)
(* fix (the keys of overlaps, a set of neighbours, the words of a domain)  *)
(* are chosen freely.  The Crossword object (variables, overlaps,          *)
(* neighbors) is the problem model the solver is given.                    *)
(***************************************************************************)
EXTENDS Integers, Sequences, FiniteSets, TLC

\* ------------------------------------------------------------------ bounds
NumVars == 3
MaxLen == 2
MaxWords == 3

Letters == {"a", "b"}

\* Python's None: as an overlap record, as an assignment value, as a variable.
None == <<>>
NoVar == 0
\* float('inf'), the initial minValues of select_unassigned_variable
Inf == -1

ACROSS == "across"
DOWN == "down"

WordUniverse == UNION {[1..k -> Letters] : k \in 1..MaxLen}

VARIABLES crossword, domains, arcs, ac3Result, assignment, stack, pc, ret, call

vars == <<crossword, domains, arcs, ac3Result, assignment, stack, pc, ret, call>>

\* ------------------------------------------------------- the problem model
Variables == crossword.variables

Length(v) == crossword.length[v]

\* self.crossword.overlaps.get((x, y)): the record (ix, iy), 0-based, or None
Overlap(x, y) ==
    IF <<x, y>> \in DOMAIN crossword.overlaps THEN crossword.overlaps[<<x, y>>] ELSE None

\* self.crossword.neighbors(var)
Neighbors(var) == {v \in Variables \ {var} : Overlap(v, var) # None}

\* the i-th character of a word, i counted from 0 as in the source
Char(word, i) == word[i + 1]

UnorderedPairs(n) == {p \in (1..n) \X (1..n) : p[1] < p[2]}

OverlapRecords == {None} \cup ((0..(MaxLen - 1)) \X (0..(MaxLen - 1)))

\* A grid can produce the overlaps: only an across and a down slot cross, the
\* positions lie inside both slots, and one cell of a slot is crossed by at
\* most one other slot.
WellFormed(n, dir, len, ov) ==
    /\ \A p \in UnorderedPairs(n) :
          ov[p] # None =>
             /\ dir[p[1]] # dir[p[2]]
             /\ ov[p][1] < len[p[1]]
             /\ ov[p][2] < len[p[2]]
    /\ \A p \in UnorderedPairs(n), q \in UnorderedPairs(n) :
          (p # q /\ ov[p] # None /\ ov[q] # None) =>
             /\ (p[1] = q[1] => ov[p][1] # ov[q][1])
             /\ (p[2] = q[2] => ov[p][2] # ov[q][2])
             /\ (p[1] = q[2] => ov[p][1] # ov[q][2])
             /\ (p[2] = q[1] => ov[p][2] # ov[q][1])

\* overlaps has a key for both directions of every crossing pair
BothDirections(n, ov) ==
    [p \in {q \in (1..n) \X (1..n) :
               /\ q[1] # q[2]
               /\ ov[IF q[1] < q[2] THEN q ELSE <<q[2], q[1]>>] # None} |->
        IF p[1] < p[2]
        THEN ov[p]
        ELSE <<ov[<<p[2], p[1]>>][2], ov[<<p[2], p[1]>>][1]>>]

\* `call` records a call made on the object from outside solve(): the method,
\* its arguments and what it returned.  solve() itself makes none.
NoCall == [fn |-> "none"]

\* ------------------------------------------------------------- __init__
\* the state after construction, for a word list drawn from `universe`
InitWith(universe) ==
    /\ \E n \in 0..NumVars :
       \E dir \in [1..n -> {ACROSS, DOWN}] :
       \E len \in [1..n -> 1..MaxLen] :
       \E ov \in [UnorderedPairs(n) -> OverlapRecords] :
          /\ WellFormed(n, dir, len, ov)
          /\ \E ws \in {s \in SUBSET universe : Cardinality(s) <= MaxWords} :
                /\ crossword = [variables |-> 1..n, direction |-> dir,
                                length |-> len, overlaps |-> BothDirections(n, ov),
                                words |-> ws]
                /\ domains = [v \in 1..n |-> ws]
    /\ arcs = <<>>
    /\ ac3Result = "pending"
    /\ assignment = <<>>
    /\ stack = <<>>
    /\ pc = "solve"
    /\ ret = "pending"
    /\ call = NoCall

Init == InitWith(WordUniverse)

\* ------------------------------------------- enforce_node_consistency
\* a variant that removes only the words that are too long
Mismatch_longer(len, word) == len < Len(word)

\* line 106: var.length != len(word)
Mismatch(len, word) == len # Len(word)

\* the inner loop: every word of the copy whose length differs is removed
RECURSIVE RemoveMismatched(_, _, _)
RemoveMismatched(dom, copy, len) ==
    IF copy = {}
    THEN dom
    ELSE LET word == CHOOSE w \in copy : TRUE
         IN RemoveMismatched(IF Mismatch(len, word) THEN dom \ {word} ELSE dom,
                             copy \ {word}, len)

enforce_node_consistency(d) ==
    [var \in DOMAIN d |-> RemoveMismatched(d[var], d[var], Length(var))]

EnforceNodeConsistency ==
    /\ pc = "solve"
    /\ domains' = enforce_node_consistency(domains)
    /\ pc' = "ac3"
    /\ UNCHANGED <<crossword, arcs, ac3Result, assignment, stack, ret, call>>

\* ---------------------------------------------------------------- revise
\* a variant that removes a word as soon as one word of y disagrees with it
revise_any(d, x, y) ==
    LET overlap == Overlap(x, y)
    IN IF overlap = None
       THEN [flag |-> FALSE, domains |-> d]
       ELSE LET wordsToRemove ==
                    {xWord \in d[x] :
                        \E yWord \in d[y] :
                            Char(xWord, overlap[1]) # Char(yWord, overlap[2])}
            IN [flag |-> wordsToRemove # {},
                domains |-> [d EXCEPT ![x] = @ \ wordsToRemove]]

\* a variant that reports a revision for every pair with an overlap
revise_flagged(d, x, y) ==
    LET overlap == Overlap(x, y)
    IN IF overlap = None
       THEN [flag |-> FALSE, domains |-> d]
       ELSE LET wordsToRemove ==
                    {xWord \in d[x] :
                        \A yWord \in d[y] :
                            Char(xWord, overlap[1]) # Char(yWord, overlap[2])}
            IN [flag |-> TRUE, domains |-> [d EXCEPT ![x] = @ \ wordsToRemove]]

\* a variant that never reports the revision
revise_unflagged(d, x, y) ==
    LET overlap == Overlap(x, y)
    IN IF overlap = None
       THEN [flag |-> FALSE, domains |-> d]
       ELSE LET wordsToRemove ==
                    {xWord \in d[x] :
                        \A yWord \in d[y] :
                            Char(xWord, overlap[1]) # Char(yWord, overlap[2])}
            IN [flag |-> FALSE, domains |-> [d EXCEPT ![x] = @ \ wordsToRemove]]

revise(d, x, y) ==
    LET overlap == Overlap(x, y)
    IN IF overlap = None
       THEN [flag |-> FALSE, domains |-> d]
       ELSE LET xIndex == overlap[1]
                yIndex == overlap[2]
                wordsToRemove ==
                    {xWord \in d[x] :
                        \A yWord \in d[y] : Char(xWord, xIndex) # Char(yWord, yIndex)}
            IN [flag |-> wordsToRemove # {},
                domains |-> [d EXCEPT ![x] = @ \ wordsToRemove]]

\* ------------------------------------------------------------------- ac3
InArcs(q, arc) == \E i \in 1..Len(q) : q[i] = arc

\* a variant that adds an arc even when it is pending
RECURSIVE Enqueue_again(_, _, _)
Enqueue_again(q, order, x) ==
    IF order = <<>>
    THEN q
    ELSE Enqueue_again(Append(q, <<Head(order), x>>), Tail(order), x)

\* a variant that puts no arc back on the worklist
Enqueue_nothing(q, order, x) == q

\* lines 178-180: the neighbours of x in the order `order`, each arc added
\* unless it is pending
RECURSIVE Enqueue(_, _, _)
Enqueue(q, order, x) ==
    IF order = <<>>
    THEN q
    ELSE LET arc == <<Head(order), x>>
         IN Enqueue(IF InArcs(q, arc) THEN q ELSE Append(q, arc), Tail(order), x)

\* the orders in which a set can be iterated
Orders(S) ==
    {o \in [1..Cardinality(S) -> S] : \A i, j \in 1..Cardinality(S) : i # j => o[i] # o[j]}

\* a variant that reports failure after every revision
DomainEmptied_always(d, x) == TRUE

\* line 173: the revised domain is empty
DomainEmptied(d, x) == d[x] = {}

\* lines 161-165: the worklist starts with the keys of self.crossword.overlaps,
\* in the order the dictionary yields them
Ac3Start ==
    /\ pc = "ac3"
    /\ \E order \in Orders(DOMAIN crossword.overlaps) : arcs' = order
    /\ pc' = "ac3loop"
    /\ UNCHANGED <<crossword, domains, ac3Result, assignment, stack, ret, call>>

\* one turn of the while loop
Ac3Step ==
    /\ pc = "ac3loop"
    /\ arcs # <<>>
    /\ LET currentArc == Head(arcs)
           x == currentArc[1]
           r == revise(domains, x, currentArc[2])
       IN /\ domains' = r.domains
          /\ IF r.flag
             THEN IF DomainEmptied(r.domains, x)
                  THEN /\ ac3Result' = "False"
                       /\ arcs' = Tail(arcs)
                       /\ pc' = "backtrack"
                  ELSE /\ \E order \in Orders(Neighbors(x)) :
                              arcs' = Enqueue(Tail(arcs), order, x)
                       /\ UNCHANGED <<ac3Result, pc>>
             ELSE /\ arcs' = Tail(arcs)
                  /\ UNCHANGED <<ac3Result, pc>>
    /\ UNCHANGED <<crossword, assignment, stack, ret, call>>

\* the worklist drained
Ac3Return ==
    /\ pc = "ac3loop"
    /\ arcs = <<>>
    /\ ac3Result' = "True"
    /\ pc' = "backtrack"
    /\ UNCHANGED <<crossword, domains, arcs, assignment, stack, ret, call>>

\* --------------------------------------------------- assignment_complete
Keys(a) == DOMAIN a

Values(a) == {a[v] : v \in DOMAIN a}

assignment_complete(a) ==
    \A var \in DOMAIN domains : var \in Keys(a) /\ a[var] # None

\* ------------------------------------------------------------- consistent
\* a variant that never compares the characters of crossing words
consistent_lengths(a) ==
    /\ Cardinality(DOMAIN a) = Cardinality({a[v] : v \in DOMAIN a})
    /\ \A var \in DOMAIN a : Length(var) = Len(a[var])

\* Called by backtrack on complete assignments only, so that every value is
\* a word.  len(variables) counts the keys, len(setVariables) the distinct
\* values.
consistent(a) ==
    /\ Cardinality(Keys(a)) = Cardinality(Values(a))
    /\ \A var \in Keys(a) :
          /\ Length(var) = Len(a[var])
          /\ \A neighbor \in Neighbors(var) :
                LET overlap == Overlap(var, neighbor)
                IN (overlap # None /\ neighbor \in Keys(a)) =>
                      Char(a[var], overlap[1]) = Char(a[neighbor], overlap[2])

\* consistent as a method of its own: on an assignment that backtrack would
\* not pass, a value may be None or a word of another length, and the method
\* may raise instead of returning.  order is the order of `for var in
\* assignment`, nbOrder[var] the order of `for neighbor in neighbors`.
\* lines 225-232; "ok" when the loop ends without returning
RECURSIVE CheckNeighbors(_, _, _)
CheckNeighbors(a, var, nbs) ==
    IF nbs = <<>>
    THEN "ok"
    ELSE LET neighbor == Head(nbs)
             overlap == Overlap(var, neighbor)
         IN IF overlap # None /\ neighbor \in Keys(a)
            THEN IF a[neighbor] = None
                 THEN "TypeError"
                 ELSE IF overlap[1] >= Len(a[var]) \/ overlap[2] >= Len(a[neighbor])
                      THEN "IndexError"
                      ELSE IF Char(a[var], overlap[1]) # Char(a[neighbor], overlap[2])
                           THEN "False"
                           ELSE CheckNeighbors(a, var, Tail(nbs))
            ELSE CheckNeighbors(a, var, Tail(nbs))

\* lines 218-235
RECURSIVE CheckVars(_, _, _)
CheckVars(a, order, nbOrder) ==
    IF order = <<>>
    THEN "True"
    ELSE LET var == Head(order)
         IN IF a[var] = None
            THEN "TypeError"
            ELSE IF Length(var) # Len(a[var])
                 THEN "False"
                 ELSE LET r == CheckNeighbors(a, var, nbOrder[var])
                      IN IF r = "ok" THEN CheckVars(a, Tail(order), nbOrder) ELSE r

\* a variant without the test for duplicates of lines 209-214
consistent_outcome_dup(a, order, nbOrder) == CheckVars(a, order, nbOrder)

consistent_outcome(a, order, nbOrder) ==
    IF Cardinality(Keys(a)) # Cardinality(Values(a))
    THEN "False"
    ELSE CheckVars(a, order, nbOrder)

\* ------------------------------------------- select_unassigned_variable
\* a variant that keeps the larger domain
LessThan_greater(size, minValues) == minValues = Inf \/ size > minValues

\* len(self.domains[var]) < minValues, minValues starting at float('inf')
LessThan(size, minValues) == minValues = Inf \/ size < minValues

\* the loop over self.domains, from variable var on
RECURSIVE SelectFrom(_, _, _, _)
SelectFrom(var, a, minValues, currentMinVar) ==
    IF var > Cardinality(DOMAIN domains)
    THEN currentMinVar
    ELSE IF var \notin Keys(a) /\ LessThan(Cardinality(domains[var]), minValues)
         THEN SelectFrom(var + 1, a, Cardinality(domains[var]), var)
         ELSE SelectFrom(var + 1, a, minValues, currentMinVar)

select_unassigned_variable(a) == SelectFrom(1, a, Inf, NoVar)

\* ----------------------------------------------------- order_domain_values
\* n[word], lines 250-255: the neighbours of var that are not in the
\* assignment and whose domain holds the word
Count(var, a, word) ==
    Cardinality({neighbor \in Neighbors(var) :
                    neighbor \notin Keys(a) /\ word \in domains[neighbor]})

\* a variant of Insert that puts a word before the words of equal count
InsertBefore(res, word, var, a) ==
    LET k == Cardinality({i \in 1..Len(res) :
                            Count(var, a, res[i]) < Count(var, a, word)})
    IN SubSeq(res, 1, k) \o <<word>> \o SubSeq(res, k + 1, Len(res))

\* sorted() is stable: a word goes after the words already placed whose count
\* is not larger
Insert(res, word, var, a) ==
    LET k == Cardinality({i \in 1..Len(res) :
                            Count(var, a, res[i]) <= Count(var, a, word)})
    IN SubSeq(res, 1, k) \o <<word>> \o SubSeq(res, k + 1, Len(res))

\* line 259: sorted(words, key=lambda w: n[w])
RECURSIVE Sorted(_, _, _, _)
Sorted(res, words, var, a) ==
    IF words = <<>>
    THEN res
    ELSE Sorted(Insert(res, Head(words), var, a), Tail(words), var, a)

\* words: self.domains[var] in the order the loop of line 248 visits it
order_domain_values(var, a, words) == Sorted(<<>>, words, var, a)

\* -------------------------------------------------------------- backtrack
\* assignment[var] = value
Bind(a, var, value) ==
    [v \in Keys(a) \cup {var} |-> IF v = var THEN value ELSE a[v]]

\* line 311: what the loop does to the assignment after a failed recursion
Undo(a, var) == Bind(a, var, None)

\* A frame of the recursion: the selected variable, the words the loop has
\* still to visit, and the assignment as it was when the call started.
Top == stack[Len(stack)]

\* Entry of backtrack(assignment), lines 298-301.  A complete and consistent
\* assignment is returned through every caller (a non-empty dict is truthy);
\* self.domains[None] raises KeyError, which nothing catches.
BacktrackEnter ==
    /\ pc = "backtrack"
    /\ IF assignment_complete(assignment) /\ consistent(assignment)
       THEN /\ ret' = "assignment"
            /\ pc' = "done"
            /\ stack' = <<>>
       ELSE LET var == select_unassigned_variable(assignment)
            IN IF var = NoVar
               THEN /\ ret' = "KeyError"
                    /\ pc' = "done"
                    /\ stack' = <<>>
               ELSE /\ stack' = Append(stack, [var |-> var, rest |-> domains[var],
                                            entry |-> assignment])
                    /\ pc' = "loop"
                    /\ ret' = ret
    /\ UNCHANGED <<crossword, domains, arcs, ac3Result, assignment, call>>

\* a variant of the loop's turn that narrows the variable's domain to the
\* value it binds
BacktrackLoop_narrowing ==
    /\ pc = "loop"
    /\ Top.rest # {}
    /\ \E value \in Top.rest :
          /\ stack' = [stack EXCEPT ![Len(stack)].rest = @ \ {value}]
          /\ IF value \notin Values(assignment)
             THEN /\ assignment' = Bind(assignment, Top.var, value)
                  /\ domains' = [domains EXCEPT ![Top.var] = {value}]
                  /\ pc' = "backtrack"
             ELSE UNCHANGED <<assignment, domains, pc>>
    /\ UNCHANGED <<crossword, arcs, ac3Result, ret, call>>

\* One turn of `for value in self.domains[var]`, lines 304-308: a set is
\* iterated in an order the program does not fix.
BacktrackLoop ==
    /\ pc = "loop"
    /\ Top.rest # {}
    /\ \E value \in Top.rest :
          /\ stack' = [stack EXCEPT ![Len(stack)].rest = @ \ {value}]
          /\ IF value \notin Values(assignment)
             THEN /\ assignment' = Bind(assignment, Top.var, value)
                  /\ pc' = "backtrack"
             ELSE UNCHANGED <<assignment, pc>>
    /\ UNCHANGED <<crossword, domains, arcs, ac3Result, ret, call>>

\* Line 313 and, in the caller, lines 309-311: None is falsy, the caller
\* sets assignment[var] = None and goes on with its loop.
BacktrackReturnNone ==
    /\ pc = "loop"
    /\ Top.rest = {}
    /\ stack' = SubSeq(stack, 1, Len(stack) - 1)
    /\ IF Len(stack) = 1
       THEN /\ ret' = "None"
            /\ pc' = "done"
            /\ UNCHANGED assignment
       ELSE /\ assignment' = Undo(assignment, stack[Len(stack) - 1].var)
            /\ UNCHANGED <<ret, pc>>
    /\ UNCHANGED <<crossword, domains, arcs, ac3Result, call>>

Next ==
    \/ EnforceNodeConsistency
    \/ Ac3Start
    \/ Ac3Step
    \/ Ac3Return
    \/ BacktrackEnter
    \/ BacktrackLoop
    \/ BacktrackReturnNone

Spec == Init /\ [][Next]_vars

\* ====================================================== calls from outside
\* revise(x, y) called on the domains that ac3 is working on
ReviseCall ==
    /\ pc = "ac3loop"
    /\ \E x \in Variables, y \in Variables :
          /\ x # y
          /\ LET r == revise(domains, x, y)
             IN /\ domains' = r.domains
                /\ call' = [fn |-> "revise", x |-> x, y |-> y, before |-> domains,
                            flag |-> r.flag]
    /\ pc' = "called"
    /\ UNCHANGED <<crossword, arcs, ac3Result, assignment, stack, ret>>

NextRevise ==
    \/ EnforceNodeConsistency
    \/ Ac3Start
    \/ Ac3Step
    \/ Ac3Return
    \/ ReviseCall

SpecRevise == Init /\ [][NextRevise]_vars

\* C11: revise(x, y) leaves in x's domain exactly the words that agree with
\* some word of y's domain at the overlap, returns True iff x's domain
\* changed, changes no other domain, and without an overlap record changes
\* nothing and returns False.
C11_ReviseExact ==
    call.fn = "revise" =>
        LET x == call.x
            y == call.y
            before == call.before
        IN /\ \A v \in Variables \ {x} : domains[v] = before[v]
           /\ call.flag <=> (domains[x] # before[x])
           /\ IF Overlap(x, y) = None
              THEN domains[x] = before[x] /\ ~call.flag
              ELSE \A wx \in before[x] :
                      wx \in domains[x] <=>
                         \E wy \in before[y] :
                            Char(wx, Overlap(x, y)[1]) = Char(wy, Overlap(x, y)[2])

\* a call that removed some words of x and kept others
C11_Witness ==
    /\ call.fn = "revise"
    /\ call.flag
    /\ domains[call.x] # {}
    /\ domains[call.x] # call.before[call.x]

\* order_domain_values(var, assignment) called while the search is running
OrderDomainValuesCall ==
    /\ pc = "backtrack"
    /\ \E var \in Variables :
       \E words \in Orders(domains[var]) :
          call' = [fn |-> "order_domain_values", var |-> var, words |-> words,
                   result |-> order_domain_values(var, assignment, words)]
    /\ pc' = "called"
    /\ UNCHANGED <<crossword, domains, arcs, ac3Result, assignment, stack, ret>>

NextOrder ==
    \/ Next
    \/ OrderDomainValuesCall

SpecOrder == Init /\ [][NextOrder]_vars

\* the position of a word in a sequence without repetitions
Position(seq, word) == CHOOSE i \in 1..Len(seq) : seq[i] = word

\* the neighbours of var outside the assignment that could take the word
Constrained(var, word) ==
    {z \in Variables :
        /\ z # var
        /\ Overlap(var, z) # None
        /\ z \notin DOMAIN assignment
        /\ word \in domains[z]}

\* C12: order_domain_values returns every word of the domain exactly once,
\* in ascending order of the number of unassigned neighbours whose domain
\* holds the word, words of equal count in their input order.
C12_OrderedByCount ==
    call.fn = "order_domain_values" =>
        LET var == call.var
            res == call.result
            n(w) == Cardinality(Constrained(var, w))
        IN /\ Len(res) = Cardinality(domains[var])
           /\ {res[i] : i \in 1..Len(res)} = domains[var]
           /\ \A i \in 1..Len(res), j \in 1..Len(res) :
                 i < j =>
                    /\ n(res[i]) <= n(res[j])
                    /\ n(res[i]) = n(res[j]) =>
                          Position(call.words, res[i]) < Position(call.words, res[j])

\* a call in which the sort moved a word
C12_Witness ==
    /\ call.fn = "order_domain_values"
    /\ call.result # call.words
    /\ Len(call.result) >= 2

\* for every variable of K an order of its neighbours
RECURSIVE NeighborOrders(_)
NeighborOrders(K) ==
    IF K = {}
    THEN {<<>>}
    ELSE LET var == CHOOSE v \in K : TRUE
         IN {[v \in K |-> IF v = var THEN o ELSE f[v]] :
                f \in NeighborOrders(K \ {var}), o \in Orders(Neighbors(var))}

\* consistent(assignment) called on any assignment of words of the list (or
\* None) to some of the variables
ConsistentCall ==
    /\ pc = "ac3"
    /\ \E K \in SUBSET Variables :
       \E a \in [K -> crossword.words \cup {None}] :
       \E order \in Orders(K) :
       \E nbOrder \in NeighborOrders(K) :
          call' = [fn |-> "consistent", assignment |-> a,
                   result |-> consistent_outcome(a, order, nbOrder)]
    /\ pc' = "called"
    /\ UNCHANGED <<crossword, domains, arcs, ac3Result, assignment, stack, ret>>

NextConsistent ==
    \/ EnforceNodeConsistency
    \/ ConsistentCall

SpecConsistent == Init /\ [][NextConsistent]_vars

\* the assigned values are words, pairwise distinct, each of its variable's
\* length, and equal at the overlap of every two assigned variables
FitsTogether(a) ==
    /\ \A v \in DOMAIN a : a[v] # None /\ Len(a[v]) = Length(v)
    /\ \A x \in DOMAIN a, y \in DOMAIN a : x # y => a[x] # a[y]
    /\ \A x \in DOMAIN a, y \in DOMAIN a :
          (x # y /\ Overlap(x, y) # None) =>
             Char(a[x], Overlap(x, y)[1]) = Char(a[y], Overlap(x, y)[2])

Ac3Again ==
    /\ pc = "backtrack"
    /\ call = NoCall
    /\ call' = [fn |-> "ac3", result |-> ac3Result, domains |-> domains]
    /\ ac3Result' = "pending"
    /\ pc' = "ac3"
    /\ UNCHANGED <<crossword, domains, arcs, assignment, stack, ret>>

NextAc3Twice ==
    \/ EnforceNodeConsistency
    \/ Ac3Start
    \/ Ac3Step
    \/ Ac3Return
    \/ Ac3Again

SpecAc3Twice == Init /\ [][NextAc3Twice]_vars

SecondRunReturned == call.fn = "ac3" /\ pc = "backtrack"

\* C14 as stated: a second run of ac3() removes no word from any domain and
\* returns the same result as the first run.
C14_Idempotent ==
    SecondRunReturned => (domains = call.domains /\ ac3Result = call.result)

\* C14, amended: when the first run of ac3() returned True, a second run
\* removes no word from any domain at any of its steps and returns True again.
C14_IdempotentAfterTrue ==
    (call.fn = "ac3" /\ call.result = "True") =>
        /\ domains = call.domains
        /\ ac3Result # "False"
        /\ pc = "backtrack" => ac3Result = "True"

\* the second run returned after a first run that returned True and had
\* removed a word that node consistency had kept
C14_Witness ==
    /\ SecondRunReturned
    /\ call.result = "True"
    /\ \E v \in Variables :
          /\ domains[v] # {}
          /\ domains[v] # {w \in crossword.words : Len(w) = Length(v)}

\* C15: inside the loop of a backtrack call the call's variable is bound only
\* while its tentative value is being explored, so between two candidates it
\* is absent from the assignment, and at `return None` (no candidate left)
\* the assignment has exactly the bindings it had when the call started.
C15_UndoRestores ==
    pc = "loop" =>
        /\ Top.var \notin Keys(assignment)
        /\ Top.rest = {} => assignment = Top.entry

\* solve() on word lists over a third letter: two words of one domain can
\* then have different least-constraining counts when they are candidates
MoreLetters == Letters \cup {"c"}

MoreWords == UNION {[1..k -> MoreLetters] : k \in 1..MaxLen}

InitMoreWords == InitWith(MoreWords)

SpecMoreWords == InitMoreWords /\ [][Next]_vars

\* the word the innermost call has just bound to its variable
Tentative == assignment[Top.var]

\* C16: backtrack tries the words of the selected variable in the order of
\* order_domain_values(var, assignment): when a word has just been
\* tentatively assigned, every word the loop has not visited yet is either
\* used by another variable or has a count that is not smaller.
C16_TriesInLcvOrder ==
    (pc = "backtrack" /\ stack # <<>>) =>
        \A word \in Top.rest :
            \/ word \in Values(Top.entry)
            \/ Count(Top.var, Top.entry, Tentative) <= Count(Top.var, Top.entry, word)

\* a turn of ac3's loop in which revise changed the domain of the popped
\* arc's first variable and left it non-empty
RevisedNotEmptied ==
    /\ pc = "ac3loop"
    /\ arcs # <<>>
    /\ domains' # domains
    /\ domains'[Head(arcs)[1]] # {}

\* after such a turn the worklist is the rest of the old one followed by
\* exactly the arcs (z, x), z in `sources`, that were not pending, each once,
\* and every arc (z, x), z in `sources`, is pending
Reenqueued(sources) ==
    LET x == Head(arcs)[1]
        rest == Tail(arcs)
        added == {arcs'[i] : i \in (Len(rest) + 1)..Len(arcs')}
    IN /\ Len(arcs') >= Len(rest)
       /\ SubSeq(arcs', 1, Len(rest)) = rest
       /\ added = {arc \in {<<z, x>> : z \in sources} : ~InArcs(rest, arc)}
       /\ Cardinality(added) = Len(arcs') - Len(rest)
       /\ \A z \in sources : InArcs(arcs', <<z, x>>)

\* C17 as stated: after revise(x, y) changed x's domain without emptying it,
\* the arcs added to the worklist are the arcs (z, x) of exactly the
\* neighbours z of x other than y, none added while pending, and afterwards
\* every such arc is pending.
C17_ReenqueueOthers ==
    [][RevisedNotEmptied =>
          Reenqueued(Neighbors(Head(arcs)[1]) \ {Head(arcs)[2]})]_vars

\* C17, amended: the arcs added are the arcs (z, x) of exactly the neighbours
\* z of x, y among them, none added while pending, and afterwards every arc
\* (z, x) of a neighbour z of x is pending.
C17_ReenqueueNeighbors ==
    [][RevisedNotEmptied => Reenqueued(Neighbors(Head(arcs)[1]))]_vars

\* the variables whose domain ac3 has shrunk; every turn of the loop pops one
\* arc and shrinks at most one domain
Shrunk == {v \in Variables : domains[v] # {w \in crossword.words : Len(w) = Length(v)}}

\* more arcs are pending than the seed less the popped ones, so arcs were put
\* back, the last of them onto a variable whose domain is not empty
C17_Witness ==
    /\ pc = "ac3loop"
    /\ arcs # <<>>
    /\ Len(arcs) + Cardinality(Shrunk) > Cardinality(DOMAIN crossword.overlaps)
    /\ arcs[Len(arcs)][2] \in Shrunk
    /\ domains[arcs[Len(arcs)][2]] # {}

\* C18: no step of solve() adds a word to a domain, and no step of the search
\* (backtrack, with the calls it makes, and order_domain_values) changes a
\* domain at all.
C18_DomainsOnlyShrink ==
    [][/\ \A v \in Variables : domains'[v] \subseteq domains[v]
       /\ pc \in {"backtrack", "loop"} => domains' = domains]_vars

\* the search is two calls deep, after an undo, on domains that ac3 had shrunk
C18_Witness ==
    /\ pc = "loop"
    /\ Len(stack) >= 2
    /\ None \in Values(assignment)
    /\ \E v \in Shrunk : domains[v] # {}

\* solve() up to the return of ac3(); the interpreter keeps running the
\* program while a statement is left to run
NextAc3 ==
    \/ EnforceNodeConsistency
    \/ Ac3Start
    \/ Ac3Step
    \/ Ac3Return

FairAc3 == Init /\ [][NextAc3]_vars /\ WF_vars(NextAc3)

\* C19: ac3() terminates: it returns True (the worklist drained) or False (a
\* domain was emptied).
C19_Ac3Terminates == <>(ac3Result # "pending")

\* ac3 has returned after shrinking the domains of two variables
C19_Witness ==
    /\ ac3Result # "pending"
    /\ Cardinality(Shrunk) >= 2

\* ================================================================ claims
\* what solve() is meant to find: a word of the list for every variable, of
\* the variable's length, agreeing on every overlap, no word used twice
IsSolution(f) ==
    /\ \A v \in Variables : Len(f[v]) = Length(v)
    /\ \A x \in Variables, y \in Variables :
          (x # y /\ Overlap(x, y) # None) =>
             Char(f[x], Overlap(x, y)[1]) = Char(f[y], Overlap(x, y)[2])
    /\ \A x \in Variables, y \in Variables : x # y => f[x] # f[y]

SolutionExists == \E f \in [Variables -> crossword.words] : IsSolution(f)

Returned == pc = "done"

\* C1: a problem without any complete consistent assignment makes solve()
\* return None; it raises nothing and returns no assignment.
C1_NoSolutionReturnsNone == (Returned /\ ~SolutionExists) => ret = "None"

\* C2: a problem that has a complete consistent assignment makes solve()
\* return a complete assignment, whatever the iteration orders.
C2_SearchComplete ==
    (Returned /\ SolutionExists) =>
        (ret = "assignment" /\ Keys(assignment) = Variables)

\* C3: an assignment returned by solve() binds every variable to a word,
\* passes consistent(), and uses pairwise distinct words that fit their
\* slots and agree on every overlap.
C3_ReturnedIsSolution ==
    (Returned /\ ret = "assignment") =>
        /\ Keys(assignment) = Variables
        /\ \A v \in Variables : assignment[v] \in crossword.words
        /\ consistent(assignment)
        /\ IsSolution(assignment)

C3_Witness ==
    /\ Returned
    /\ ret = "assignment"
    /\ \E x \in Variables, y \in Variables : x # y /\ Overlap(x, y) # None
    /\ Cardinality(crossword.words) = MaxWords

\* C4: when the ac3() call of solve() returns False, solve() returns None.
C4_Ac3FalseReturnsNone == (Returned /\ ac3Result = "False") => ret = "None"

C4_Witness == Returned /\ ac3Result = "False" /\ ret = "None"

\* C5: ac3() returns True only if every domain is non-empty on return (it
\* returns False when some domain is empty, however it became empty).
C5_TrueMeansNoEmptyDomain ==
    ac3Result = "True" => \A v \in Variables : domains[v] # {}

\* C6: after ac3() returned True every word of every domain has, for every
\* overlapping variable, a word in that variable's domain that agrees with it
\* at the overlap.
ArcConsistent(d) ==
    \A x \in Variables, y \in Variables :
        (x # y /\ Overlap(x, y) # None) =>
            \A wx \in d[x] : \E wy \in d[y] :
                Char(wx, Overlap(x, y)[1]) = Char(wy, Overlap(x, y)[2])

C6_Ac3TrueIsArcConsistent == ac3Result = "True" => ArcConsistent(domains)

NodeDomain(v) == {w \in crossword.words : Len(w) = Length(v)}

\* ac3 returned True after it removed a word because of an earlier removal
C6_Witness ==
    /\ ac3Result = "True"
    /\ \A v \in Variables : domains[v] # {}
    /\ Cardinality({v \in Variables : domains[v] # NodeDomain(v)}) >= 2

\* C7: ac3() removes no word that takes part in an assignment of
\* node-consistent words satisfying every overlap; when it returns False no
\* such assignment exists.
NodeArcSolution(f) ==
    /\ \A v \in Variables : f[v] \in NodeDomain(v)
    /\ \A x \in Variables, y \in Variables :
          (x # y /\ Overlap(x, y) # None) =>
             Char(f[x], Overlap(x, y)[1]) = Char(f[y], Overlap(x, y)[2])

C7_Ac3Sound ==
    pc # "solve" =>
        /\ \A f \in [Variables -> crossword.words] :
              NodeArcSolution(f) => \A v \in Variables : f[v] \in domains[v]
        /\ ac3Result = "False" =>
              ~ \E f \in [Variables -> crossword.words] : NodeArcSolution(f)

\* ac3 returned False on a problem whose node-consistent domains are all
\* non-empty, and it removed words before it failed
C7_Witness ==
    /\ ac3Result = "False"
    /\ \A v \in Variables : NodeDomain(v) # {}
    /\ \E v \in Variables : domains[v] # {} /\ domains[v] # NodeDomain(v)

\* C8: after enforce_node_consistency() every domain is exactly the words of
\* its previous domain (the word list) that have the variable's length.
C8_NodeConsistencyExact ==
    pc = "ac3" =>
        \A v \in Variables :
            domains[v] = {w \in crossword.words : Len(w) = Length(v)}

C8_Witness ==
    /\ pc = "ac3"
    /\ \E v \in Variables : domains[v] # {} /\ domains[v] # crossword.words

\* backtrack is about to call select_unassigned_variable(assignment)
AtSelect ==
    /\ pc = "backtrack"
    /\ ~(assignment_complete(assignment) /\ consistent(assignment))

Unassigned == Variables \ Keys(assignment)

Degree(v) == Cardinality(Neighbors(v))

FewestWords ==
    {v \in Unassigned :
        \A u \in Unassigned : Cardinality(domains[v]) <= Cardinality(domains[u])}

\* C9: when several variables outside the assignment tie for the fewest
\* words, select_unassigned_variable returns a tied variable of highest degree.
C9_TieBrokenByDegree ==
    (AtSelect /\ Cardinality(FewestWords) > 1) =>
        LET var == select_unassigned_variable(assignment)
        IN /\ var \in FewestWords
           /\ \A u \in FewestWords : Degree(u) <= Degree(var)

\* C10: select_unassigned_variable returns a variable that is not in the
\* assignment and has the fewest words among the variables not in it,
\* whenever there is such a variable.
C10_SelectsFewestWords ==
    (AtSelect /\ Unassigned # {}) =>
        LET var == select_unassigned_variable(assignment)
        IN /\ var \in Unassigned
           /\ \A u \in Unassigned :
                 Cardinality(domains[var]) <= Cardinality(domains[u])

\* the variable returned comes after an unassigned variable with more words,
\* and some variable is already in the assignment
C10_Witness ==
    /\ AtSelect
    /\ Keys(assignment) # {}
    /\ LET var == select_unassigned_variable(assignment)
       IN \E u \in Unassigned :
             u < var /\ Cardinality(domains[u]) > Cardinality(domains[var])

\* C20: whenever backtrack goes on to select a variable (the assignment is
\* not both complete and consistent), select_unassigned_variable returns a
\* variable of the problem, at every depth of the recursion.
C20_SelectNeverNone ==
    AtSelect => select_unassigned_variable(assignment) \in Variables

====
